---- MODULE Spec2Model ----
(***************************************************************************)
(* Vantage micro-safety layer (src/Vantage.py): the detection-to-alert     *)
(* path of VantageSystem.run, estimate_distance and                        *)
(* trigger_bone_conduction, with the wall clock (time.time) and the        *)
(* perception source (camera + YOLO results) as the environment.           *)
(*                                                                         *)
(* Units.  Time is counted in whole seconds.  A raw confidence             *)
(* box.conf[0] is a fixed-point number of 1/ConfScale.  A raw coordinate   *)
(* of box.xyxy[0] is a fixed-point number of 1/CoordScale pixel.  Pixel    *)
(* widths are integers, as after int().  Distances are in tenths of a      *)
(* metre (0.5 m = 5, 1.5 m = 15, 3.0 m = 30, the 2.0 m test = 20).         *)
(***************************************************************************)
EXTENDS Integers, Sequences, FiniteSets, TLC

\* ---- bounds of the model ------------------------------------------------
MaxClock == 6        \* largest clock reading explored
MaxBoxes == 2        \* most detections the results of one frame yield
MaxPx == 5           \* largest right edge x2 of a box, in whole pixels

\* ---- configuration (Vantage.py:25-26) -----------------------------------
CONFIDENCE_THRESHOLD == 55     \* 0.55, in hundredths
AUDIO_COOLDOWN == 2            \* 2.0 seconds

ConfScale == 1000    \* raw confidences are multiples of 0.001
CoordScale == 2      \* raw coordinates are multiples of half a pixel

\* mutant of HAZARD_MAP: class 4 (airplane) slipped into the table
HAZARD_MAP_WithAirplane ==
    (0 :> "Pedestrian (Dynamic)") @@ (1 :> "Cyclist (Dynamic)") @@
    (2 :> "Car (Dynamic)") @@ (3 :> "Bike (Dynamic)") @@
    (4 :> "Airplane") @@
    (5 :> "Bus (Dynamic)") @@ (7 :> "Truck (Dynamic)") @@
    (13 :> "Verticality (Bench/Step)") @@ (56 :> "Obstacle (Chair)")

\* ---- hazard mapping (Vantage.py:32-41) ----------------------------------
HAZARD_MAP ==
    (0 :> "Pedestrian (Dynamic)") @@ (1 :> "Cyclist (Dynamic)") @@
    (2 :> "Car (Dynamic)") @@ (3 :> "Bike (Dynamic)") @@
    (5 :> "Bus (Dynamic)") @@ (7 :> "Truck (Dynamic)") @@
    (13 :> "Verticality (Bench/Step)") @@ (56 :> "Obstacle (Chair)")

\* ---- what the perception source can supply ------------------------------
ClassIds == {0, 2, 4}               \* person, car, airplane (unmapped)
Confs == {541, 550, 551}            \* 0.541, 0.550, 0.551
FrameWidths == {0, 5}               \* frame.shape[1]; 0 is an empty frame
X1s == {0, 3}                       \* 0.0 px, 1.5 px
X2s == {CoordScale * p : p \in 0..MaxPx}   \* 0.0 px, 1.0 px, ...
\* y1 and y2 are only handed to cv2.rectangle/putText and are left out
Boxes == [cls : ClassIds, conf : Confs, x1 : X1s, x2 : X2s]
NoBox == [cls |-> -1, conf |-> 0, x1 |-> 0, x2 |-> 0]

\* ---- threads that call trigger_bone_conduction concurrently --------------
Callers == {"A", "B"}
Idle == [pc |-> "idle", now |-> 0]

VARIABLES
    clock,               \* what time.time() returns now
    last_audio_time,     \* self.last_audio_time
    pc,                  \* position of run(): "read" (line 86), "boxes" (line
                         \* 99, the for statement), "trigger" (line 65),
                         \* "store" (line 70), "released" (line 143),
                         \* "crashed" (uncaught exception)
    width,               \* frame.shape[1] of the frame being processed
    idx,                 \* number of boxes of this frame already iterated
    cur,                 \* the box of the current iteration (raw values)
    annotations,         \* rectangles+labels drawn on this frame, in order
    message,             \* argument of the pending trigger_bone_conduction
    current_time,        \* local current_time of trigger_bone_conduction
    frameAlerts,         \* history: alerts printed while processing this frame
    firstEligible,       \* history: index of this frame's first close hazard
    lastEmit,            \* history: current_time of the latest alert, -1 if none
    prevEmit,            \* history: current_time of the alert before it, or -1
    callers,             \* threads calling trigger_bone_conduction on the one
                         \* VantageSystem: for each its position ("idle",
                         \* "read" line 65, "test" line 68, "store" line 70)
                         \* and its local current_time
    serialised           \* whether calls are made under a mutex (spec, sect. 5)

vars == <<clock, last_audio_time, pc, width, idx, cur, annotations,
          message, current_time, frameAlerts, firstEligible, lastEmit, prevEmit,
          callers, serialised>>

\* ---- pure helpers --------------------------------------------------------

\* int(x) of a raw coordinate: truncation toward 0
ToInt(c) == IF c >= 0 THEN c \div CoordScale ELSE -((-c) \div CoordScale)

\* mutant of CeilConf: the confidence is rounded down instead of up
CeilConf_Floor(c) == (c * 100) \div ConfScale

\* line 101: math.ceil(box.conf[0] * 100) / 100, in hundredths
CeilConf(c) == (c * 100 + ConfScale - 1) \div ConfScale

\* line 107: conf > CONFIDENCE_THRESHOLD and cls_id in HAZARD_MAP
PassesFilter(c, cls_id) ==
    CeilConf(c) > CONFIDENCE_THRESHOLD /\ cls_id \in DOMAIN HAZARD_MAP

\* line 79: box_width / frame_width raises ZeroDivisionError (both are ints)
DivisionRaises(box_width, frame_width) == frame_width = 0

\* mutant of estimate_distance: the band tests are >= instead of >
estimate_distance_Inclusive(box_width, frame_width) ==
    IF 10 * box_width >= 8 * frame_width THEN 5
    ELSE IF 10 * box_width >= 4 * frame_width THEN 15
    ELSE 30

\* estimate_distance, when the division succeeds: for frame_width > 0 the
\* float quotient exceeds 0.8 (0.4) exactly when 10*box_width exceeds
\* 8*frame_width (4*frame_width).
estimate_distance(box_width, frame_width) ==
    IF 10 * box_width > 8 * frame_width THEN 5
    ELSE IF 10 * box_width > 4 * frame_width THEN 15
    ELSE 30

\* mutant of AlertEligible: the Safe band triggers the audio as well
AlertEligible_Any(distance) == distance <= 30

\* line 132: distance < 2.0
AlertEligible(distance) == distance < 20

\* mutant of CooldownElapsed: the distance in time is taken as an absolute value
CooldownElapsed_Abs(now, last) ==
    (IF now >= last THEN now - last ELSE last - now) > AUDIO_COOLDOWN

\* mutant of CooldownElapsed: a category other than the one alerted last in
\* this frame has a timer of its own
CooldownElapsed_PerCategory(now, last) ==
    \/ now - last > AUDIO_COOLDOWN
    \/ /\ frameAlerts # <<>>
       /\ frameAlerts[Len(frameAlerts)].label # message

\* mutant of CooldownElapsed: the cooldown test is >= instead of >
CooldownElapsed_Inclusive(now, last) == now - last >= AUDIO_COOLDOWN

\* line 68: current_time - self.last_audio_time > AUDIO_COOLDOWN
CooldownElapsed(now, last) == now - last > AUDIO_COOLDOWN

\* mutant of StoredTime: the clock is read again when the timestamp is stored
StoredTime_Reread(now, last) == clock

\* mutant of StoredTime: the timestamp is not refreshed
StoredTime_Stale(now, last) == last

\* line 70: the value stored into self.last_audio_time
StoredTime(now, last) == now

\* lines 113, 116: obj_width = int(x2) - int(x1)
ObjWidth(box) == ToInt(box.x2) - ToInt(box.x1)

TypeOK ==
    /\ clock \in 0..MaxClock
    /\ last_audio_time \in 0..MaxClock
    /\ pc \in {"read", "boxes", "trigger", "store", "released", "crashed"}
    /\ width \in FrameWidths
    /\ idx \in 0..MaxBoxes
    /\ cur \in Boxes \cup {NoBox}
    /\ Len(annotations) <= MaxBoxes
    /\ current_time \in 0..MaxClock
    /\ lastEmit \in -1..MaxClock
    /\ prevEmit \in -1..MaxClock
    /\ callers \in [Callers -> [pc : {"idle", "read", "test", "store"},
                                now : 0..MaxClock]]
    /\ serialised \in BOOLEAN

Init ==
    /\ clock \in 0..MaxClock
    /\ last_audio_time = 0
    /\ pc = "read"
    /\ width = 0
    /\ idx = 0
    /\ cur = NoBox
    /\ annotations = <<>>
    /\ message = ""
    /\ current_time = 0
    /\ frameAlerts = <<>>
    /\ firstEligible = 0
    /\ lastEmit = -1
    /\ prevEmit = -1
    /\ callers = [c \in Callers |-> Idle]
    /\ serialised = TRUE

\* ---- environment ---------------------------------------------------------

\* time passes (between any two statements of the program)
Tick ==
    /\ clock < MaxClock
    /\ clock' = clock + 1
    /\ UNCHANGED <<last_audio_time, pc, width, idx, cur, annotations,
                   message, current_time, frameAlerts, firstEligible, lastEmit,
                   prevEmit>>
    /\ UNCHANGED <<callers, serialised>>

\* time.time() is the wall clock: it can be set back
ClockRegress ==
    /\ \E t \in 0..(clock - 1) : clock' = t
    /\ UNCHANGED <<last_audio_time, pc, width, idx, cur, annotations,
                   message, current_time, frameAlerts, firstEligible, lastEmit,
                   prevEmit>>
    /\ UNCHANGED <<callers, serialised>>

\* ---- run() ---------------------------------------------------------------

\* lines 86-94: a frame is read and inference is started
ReadFrame ==
    /\ pc = "read"
    /\ \E w \in FrameWidths : width' = w
    /\ pc' = "boxes"
    /\ UNCHANGED <<clock, last_audio_time, idx, cur, annotations,
                   message, current_time, frameAlerts, firstEligible, lastEmit,
                   prevEmit>>
    /\ UNCHANGED <<callers, serialised>>

\* lines 86-89, 143-144: the camera read fails, the loop is left
ReadFail ==
    /\ pc = "read"
    /\ pc' = "released"
    /\ UNCHANGED <<clock, last_audio_time, width, idx, cur,
                   annotations, message, current_time, frameAlerts,
                   firstEligible, lastEmit, prevEmit>>
    /\ UNCHANGED <<callers, serialised>>

\* lines 97-133, up to the call of trigger_bone_conduction: the results
\* yield the next box of the frame and the loop body handles it
ProcessBox ==
    /\ pc = "boxes"
    /\ idx < MaxBoxes
    /\ idx' = idx + 1
    /\ \E box \in Boxes :
        /\ cur' = box
        /\ IF ~PassesFilter(box.conf, box.cls)
           THEN /\ pc' = "boxes"
                /\ UNCHANGED <<annotations, message, firstEligible>>
           ELSE IF DivisionRaises(ObjWidth(box), width)
           THEN /\ pc' = "crashed"
                /\ UNCHANGED <<annotations, message, firstEligible>>
           ELSE LET label == HAZARD_MAP[box.cls]
                    distance == estimate_distance(ObjWidth(box), width)
                IN  /\ annotations' = Append(annotations,
                           [idx |-> idx + 1, label |-> label, distance |-> distance])
                    /\ IF AlertEligible(distance)
                       THEN /\ pc' = "trigger"
                            /\ message' = label
                            /\ firstEligible' =
                                 IF firstEligible = 0 THEN idx + 1 ELSE firstEligible
                       ELSE /\ pc' = "boxes"
                            /\ UNCHANGED <<message, firstEligible>>
    /\ UNCHANGED <<clock, last_audio_time, width, current_time, frameAlerts,
                   lastEmit, prevEmit>>
    /\ UNCHANGED <<callers, serialised>>

\* lines 65-69: the clock is read, the cooldown is tested, the alert printed
TriggerCheck ==
    /\ pc = "trigger"
    /\ IF CooldownElapsed(clock, last_audio_time)
       THEN /\ pc' = "store"
            /\ current_time' = clock
            /\ frameAlerts' = Append(frameAlerts, [idx |-> idx, label |-> message])
            /\ lastEmit' = clock
            /\ prevEmit' = lastEmit
            /\ UNCHANGED message
       ELSE /\ pc' = "boxes"
            /\ current_time' = 0
            /\ message' = ""
            /\ UNCHANGED <<frameAlerts, lastEmit, prevEmit>>
    /\ UNCHANGED <<clock, last_audio_time, width, idx, cur,
                   annotations, firstEligible>>
    /\ UNCHANGED <<callers, serialised>>

\* line 70: the timestamp is written, the call returns
TriggerStore ==
    /\ pc = "store"
    /\ last_audio_time' = StoredTime(current_time, last_audio_time)
    /\ pc' = "boxes"
    /\ current_time' = 0
    /\ message' = ""
    /\ UNCHANGED <<clock, width, idx, cur, annotations, frameAlerts,
                   firstEligible, lastEmit, prevEmit>>
    /\ UNCHANGED <<callers, serialised>>

\* lines 97-99, 136-139: the results are exhausted, the frame is shown and
\* dropped, no 'q' was pressed
ShowFrame ==
    /\ pc = "boxes"
    /\ pc' = "read"
    /\ idx' = 0
    /\ annotations' = <<>>
    /\ frameAlerts' = <<>>
    /\ firstEligible' = 0
    /\ cur' = NoBox
    /\ UNCHANGED <<clock, last_audio_time, width, message, current_time,
                   lastEmit, prevEmit>>
    /\ UNCHANGED <<callers, serialised>>

\* lines 136-144: the frame is shown, 'q' is pressed, the loop is left
Quit ==
    /\ pc = "boxes"
    /\ pc' = "released"
    /\ idx' = 0
    /\ annotations' = <<>>
    /\ frameAlerts' = <<>>
    /\ firstEligible' = 0
    /\ cur' = NoBox
    /\ UNCHANGED <<clock, last_audio_time, width, message, current_time,
                   lastEmit, prevEmit>>
    /\ UNCHANGED <<callers, serialised>>

Next ==
    \/ Tick
    \/ ClockRegress
    \/ ReadFrame
    \/ ReadFail
    \/ ProcessBox
    \/ TriggerCheck
    \/ TriggerStore
    \/ ShowFrame
    \/ Quit

Spec == Init /\ [][Next]_vars

\* ---- run() under a clock that is never set back --------------------------
NextMonotonic ==
    \/ Tick
    \/ ReadFrame
    \/ ReadFail
    \/ ProcessBox
    \/ TriggerCheck
    \/ TriggerStore
    \/ ShowFrame
    \/ Quit

SpecMonotonic == Init /\ [][NextMonotonic]_vars

\* the same, and time does not stand still for ever
SpecLive == Init /\ [][NextMonotonic]_vars /\ WF_vars(Tick)

\* ---- trigger_bone_conduction called from several threads -----------------

\* the mutex the specification asks for around the arbitrator (it is not in
\* Vantage.py): under it a call starts only when no other call is under way
MayEnter(c) ==
    serialised => \A d \in Callers \ {c} : callers[d].pc = "idle"

\* line 60: thread c calls trigger_bone_conduction
CallerEnter(c) ==
    /\ callers[c].pc = "idle"
    /\ MayEnter(c)
    /\ callers' = [callers EXCEPT ![c] = [pc |-> "read", now |-> 0]]
    /\ UNCHANGED <<clock, last_audio_time, pc, width, idx, cur, annotations,
                   message, current_time, frameAlerts, firstEligible, lastEmit,
                   prevEmit, serialised>>

\* line 65: current_time = time.time()
CallerRead(c) ==
    /\ callers[c].pc = "read"
    /\ callers' = [callers EXCEPT ![c] = [pc |-> "test", now |-> clock]]
    /\ UNCHANGED <<clock, last_audio_time, pc, width, idx, cur, annotations,
                   message, current_time, frameAlerts, firstEligible, lastEmit,
                   prevEmit, serialised>>

\* lines 68-69: the cooldown is tested against the shared
\* self.last_audio_time and the alert is printed
CallerTest(c) ==
    /\ callers[c].pc = "test"
    /\ IF CooldownElapsed(callers[c].now, last_audio_time)
       THEN /\ callers' = [callers EXCEPT ![c].pc = "store"]
            /\ lastEmit' = callers[c].now
            /\ prevEmit' = lastEmit
       ELSE /\ callers' = [callers EXCEPT ![c] = Idle]
            /\ UNCHANGED <<lastEmit, prevEmit>>
    /\ UNCHANGED <<clock, last_audio_time, pc, width, idx, cur, annotations,
                   message, current_time, frameAlerts, firstEligible,
                   serialised>>

\* line 70: self.last_audio_time = current_time, the call returns
CallerStore(c) ==
    /\ callers[c].pc = "store"
    /\ last_audio_time' = StoredTime(callers[c].now, last_audio_time)
    /\ callers' = [callers EXCEPT ![c] = Idle]
    /\ UNCHANGED <<clock, pc, width, idx, cur, annotations, message,
                   current_time, frameAlerts, firstEligible, lastEmit,
                   prevEmit, serialised>>

\* the object is constructed; the callers run with or without the mutex
InitConcurrent ==
    /\ clock \in 0..MaxClock
    /\ last_audio_time = 0
    /\ pc = "read"
    /\ width = 0
    /\ idx = 0
    /\ cur = NoBox
    /\ annotations = <<>>
    /\ message = ""
    /\ current_time = 0
    /\ frameAlerts = <<>>
    /\ firstEligible = 0
    /\ lastEmit = -1
    /\ prevEmit = -1
    /\ callers = [c \in Callers |-> Idle]
    /\ serialised \in BOOLEAN

NextConcurrent ==
    \/ Tick
    \/ \E c \in Callers : CallerEnter(c)
    \/ \E c \in Callers : CallerRead(c)
    \/ \E c \in Callers : CallerTest(c)
    \/ \E c \in Callers : CallerStore(c)

SpecConcurrent == InitConcurrent /\ [][NextConcurrent]_vars

\* ==== properties ===========================================================

\* a step of ProcessBox: the loop body has handled the box cur'
BoxStep == pc = "boxes" /\ idx' = idx + 1

\* the box of the last ProcessBox step was annotated
CurAnnotated ==
    /\ annotations # <<>>
    /\ annotations[Len(annotations)].idx = idx

HazardTable == {0, 1, 2, 3, 5, 7, 13, 56}

\* C1: any two successively emitted alerts are separated by strictly more
\* than the cooldown (2 s), whatever their categories; the time of an alert
\* is the clock reading of the call that emitted it.
C1_AlertsSeparated == prevEmit >= 0 => lastEmit - prevEmit > 2

\* two alerts have been emitted
C1_Witness == prevEmit >= 0 /\ lastEmit >= 0

\* C2: a call of the arbitrator at time now (the clock when it is read)
\* emits an alert iff now - last_audio_time > 2, strictly; a call that emits
\* then sets last_audio_time to that now, a call that does not emit leaves
\* last_audio_time and everything emitted unchanged.
C2_GrantIffCooldownElapsed ==
    [][ /\ (pc = "trigger" /\ pc' # "trigger") =>
              IF clock - last_audio_time > 2
              THEN /\ pc' = "store"
                   /\ lastEmit' = clock
                   /\ frameAlerts' = Append(frameAlerts,
                                            [idx |-> idx, label |-> message])
                   /\ last_audio_time' = last_audio_time
              ELSE /\ pc' = "boxes"
                   /\ UNCHANGED <<last_audio_time, frameAlerts, lastEmit, prevEmit>>
        /\ (pc = "store" /\ pc' # "store") =>
              /\ pc' = "boxes"
              /\ last_audio_time' = lastEmit
              /\ UNCHANGED <<frameAlerts, lastEmit, prevEmit>>
      ]_vars

\* a call made exactly one cooldown after the previous alert was refused:
\* box idx was close, nothing was emitted in this frame, and the clock still
\* reads last_audio_time + 2
C2_Witness ==
    /\ pc = "boxes"
    /\ idx > 0
    /\ firstEligible = idx
    /\ frameAlerts = <<>>
    /\ lastEmit >= 0
    /\ last_audio_time = lastEmit
    /\ clock - last_audio_time = 2

\* C3 (as claimed): at most one alert is emitted while one frame is processed.
C3_AtMostOneAlertPerFrame == Len(frameAlerts) <= 1

\* C4 (as claimed): every alert of a frame is for the frame's first close
\* hazard in detection order and carries its category.
C4_FirstEligibleWins ==
    \A i \in DOMAIN frameAlerts :
        /\ frameAlerts[i].idx = firstEligible
        /\ \E j \in DOMAIN annotations :
              /\ annotations[j].idx = firstEligible
              /\ annotations[j].label = frameAlerts[i].label

\* C5: a hazard reaches the arbitrator only in the bands VeryClose (0.5 m)
\* and Close (1.5 m); while all hazards annotated in the frame are Safe
\* (3.0 m) nothing is emitted and last_audio_time is not written, however
\* long ago the last alert was.
C5_SafeNeverArbitrated ==
    [][ /\ (pc # "trigger" /\ pc' = "trigger") =>
              /\ annotations' # <<>>
              /\ annotations'[Len(annotations')].distance \in {5, 15}
        /\ (BoxStep /\ CurAnnotated' /\ annotations'[Len(annotations')].distance = 30) =>
              /\ pc' = "boxes"
              /\ UNCHANGED <<last_audio_time, frameAlerts, lastEmit>>
        /\ (\A j \in DOMAIN annotations' : annotations'[j].distance = 30) =>
              /\ pc' \notin {"trigger", "store"}
              /\ frameAlerts' = <<>>
              /\ last_audio_time' = last_audio_time
      ]_vars

\* a frame whose only hazard is Safe was annotated with the cooldown elapsed
C5_Witness ==
    /\ pc = "boxes"
    /\ CurAnnotated
    /\ \A j \in DOMAIN annotations : annotations[j].distance = 30
    /\ frameAlerts = <<>>
    /\ clock - last_audio_time > 2

\* C6: a box whose raw confidence is <= 0.55 is neither annotated nor able
\* to trigger, also for a mapped class; a mapped box whose raw confidence is
\* > 0.55 is annotated (the frame width being positive).
C6_ConfidenceThresholdStrict ==
    [][ BoxStep =>
          /\ (cur'.conf * 100 <= 55 * ConfScale) =>
                /\ pc' = "boxes"
                /\ UNCHANGED <<annotations, frameAlerts, last_audio_time, lastEmit>>
          /\ (cur'.conf * 100 > 55 * ConfScale /\ cur'.cls \in HazardTable /\ width > 0) =>
                /\ Len(annotations') = Len(annotations) + 1
                /\ CurAnnotated'
      ]_vars

\* the first box of a frame, mapped and with confidence exactly 0.55, was
\* dropped
C6_Witness ==
    /\ pc = "boxes"
    /\ idx = 1
    /\ cur.cls \in HazardTable
    /\ cur.conf * 100 = 55 * ConfScale
    /\ width > 0
    /\ annotations = <<>>

\* C7: a box whose class is not in {0,1,2,3,5,7,13,56} is dropped whatever
\* its confidence and box: no annotation, no alert, last_audio_time
\* unchanged; every class of the table has exactly one category, which the
\* annotation of an accepted box carries.
C7_Category(c) ==
    CASE c = 0 -> "Pedestrian (Dynamic)" [] c = 1 -> "Cyclist (Dynamic)"
      [] c = 2 -> "Car (Dynamic)" [] c = 3 -> "Bike (Dynamic)"
      [] c = 5 -> "Bus (Dynamic)" [] c = 7 -> "Truck (Dynamic)"
      [] c = 13 -> "Verticality (Bench/Step)" [] c = 56 -> "Obstacle (Chair)"

C7_UnmappedClassRejected ==
    [][ BoxStep =>
          /\ (cur'.cls \notin HazardTable) =>
                /\ pc' = "boxes"
                /\ UNCHANGED <<annotations, frameAlerts, last_audio_time, lastEmit>>
          /\ (cur'.cls \in HazardTable /\ CurAnnotated') =>
                annotations'[Len(annotations')].label = C7_Category(cur'.cls)
      ]_vars

\* an unmapped box, confident and as wide as the frame, was dropped while
\* the cooldown had elapsed
C7_Witness ==
    /\ pc = "boxes"
    /\ idx = 1
    /\ cur.cls \notin HazardTable
    /\ cur.conf * 100 > 55 * ConfScale
    /\ width > 0
    /\ ObjWidth(cur) = width
    /\ annotations = <<>>
    /\ clock - last_audio_time > 2

\* C8: for box width w >= 0 and frame width f > 0, estimate gives 0.5 m iff
\* w/f > 0.8, 1.5 m iff 0.4 < w/f <= 0.8 and 3.0 m iff w/f <= 0.4; w/f = 0.8
\* is Close, w/f = 0.4 is Safe, w >= f is VeryClose, w = 0 is Safe, and the
\* distance never increases with w.
C8_Band(w, f, d) ==
    /\ d \in {5, 15, 30}
    /\ d = 5 <=> 5 * w > 4 * f
    /\ d = 15 <=> (5 * w > 2 * f /\ 5 * w <= 4 * f)
    /\ d = 30 <=> 5 * w <= 2 * f
    /\ 5 * w = 4 * f => d = 15
    /\ 5 * w = 2 * f => d = 30
    /\ w >= f => d = 5
    /\ w = 0 => d = 30

C8_BandsPartition ==
    /\ (CurAnnotated /\ ObjWidth(cur) >= 0 /\ width > 0) =>
          C8_Band(ObjWidth(cur), width, annotations[Len(annotations)].distance)
    /\ \A f \in FrameWidths \ {0} : \A w1, w2 \in 0..(MaxPx + 1) :
          w1 <= w2 => estimate_distance(w1, f) >= estimate_distance(w2, f)

\* a box at ratio exactly 0.8 was annotated Close
C8_Witness ==
    /\ CurAnnotated
    /\ width > 0
    /\ 5 * ObjWidth(cur) = 4 * width
    /\ annotations[Len(annotations)].distance = 15

\* C9 (as claimed): when the frame width is not positive and a box reaches
\* the proximity estimation, the frame is abandoned without annotation or
\* alert, last_audio_time is unchanged and the loop goes on to the next frame.
C9_BadFrameWidthSkipsFrame ==
    [][ (BoxStep /\ width <= 0 /\ PassesFilter(cur'.conf, cur'.cls)) =>
          /\ pc' = "read"
          /\ annotations' = <<>>
          /\ frameAlerts' = <<>>
          /\ last_audio_time' = last_audio_time
      ]_vars

\* C10 (as claimed): a box with x2 < x1 (raw coordinates), in a frame of
\* positive width, is skipped: it adds no annotation and cannot trigger.
C10_MalformedBoxSkipped ==
    [][ (BoxStep /\ width > 0 /\ cur'.x2 < cur'.x1) =>
          /\ pc' = "boxes"
          /\ UNCHANGED <<annotations, frameAlerts, last_audio_time>>
      ]_vars

\* the call of trigger_bone_conduction for box idx returns or goes on to
\* line 70: the step of TriggerCheck
CheckStep == pc = "trigger" /\ pc' # "trigger"

\* the call for box idx was refused: the box was close and nothing was
\* printed for it
CurRefused ==
    /\ pc = "boxes"
    /\ CurAnnotated
    /\ annotations[Len(annotations)].distance < 20
    /\ \A i \in DOMAIN frameAlerts : frameAlerts[i].idx # idx

\* C11 (as claimed): while no alert has been emitted since init
\* (last_audio_time is still 0), the call for a mapped, confident VeryClose
\* hazard prints one alert for it, whatever the clock reads.  (The first
\* VeryClose hazard after init is such a call, so a refusal here refutes the
\* claim.)
C11_FirstVeryCloseAlerts ==
    [][ (CheckStep /\ lastEmit = -1 /\ last_audio_time = 0 /\ CurAnnotated
           /\ annotations[Len(annotations)].distance = 5) =>
          /\ pc' = "store"
          /\ frameAlerts' = Append(frameAlerts,
                 [idx |-> idx, label |-> annotations[Len(annotations)].label])
      ]_vars

\* C12 (as claimed): every box that passes classification (mapped class,
\* raw confidence > 0.55) is annotated exactly once, in input order, with
\* its category and its band, whatever the band and the fate of the alert;
\* nothing else adds, removes or reorders annotations within a frame.
C12_ClassifiedIsAnnotated ==
    [][ /\ (BoxStep /\ cur'.conf * 100 > 55 * ConfScale /\ cur'.cls \in HazardTable) =>
              /\ Len(annotations') = Len(annotations) + 1
              /\ SubSeq(annotations', 1, Len(annotations)) = annotations
              /\ annotations'[Len(annotations')].idx = idx + 1
              /\ annotations'[Len(annotations')].label = C7_Category(cur'.cls)
              /\ annotations'[Len(annotations')].distance \in {5, 15, 30}
        /\ (pc \in {"trigger", "store"}) => annotations' = annotations
      ]_vars

\* C12 restricted to frames of positive width (this part holds)
C12_InValidFrames ==
    [][ /\ (BoxStep /\ width > 0 /\ cur'.conf * 100 > 55 * ConfScale
              /\ cur'.cls \in HazardTable) =>
              /\ Len(annotations') = Len(annotations) + 1
              /\ SubSeq(annotations', 1, Len(annotations)) = annotations
              /\ annotations'[Len(annotations')].idx = idx + 1
              /\ annotations'[Len(annotations')].label = C7_Category(cur'.cls)
              /\ C8_Band(IF ObjWidth(cur') >= 0 THEN ObjWidth(cur') ELSE 0, width,
                         annotations'[Len(annotations')].distance)
        /\ (pc \in {"trigger", "store"}) => annotations' = annotations
      ]_vars

\* C13: a call that decides not to alert changes nothing (last_audio_time,
\* the alerts printed); last_audio_time is written only at line 70, after
\* the alert of that call was printed, and only with the clock reading of
\* that call.
C13_RefusalHasNoEffect ==
    [][ /\ (CheckStep /\ pc' # "store") =>
              UNCHANGED <<last_audio_time, frameAlerts, lastEmit, prevEmit>>
        /\ (last_audio_time' # last_audio_time) =>
              /\ pc = "store"
              /\ frameAlerts # <<>>
              /\ frameAlerts[Len(frameAlerts)].idx = idx
              /\ last_audio_time' = lastEmit
      ]_vars

\* a call was refused within the cooldown of an earlier alert, which is
\* still the value of last_audio_time
C13_Witness ==
    /\ CurRefused
    /\ lastEmit > 0
    /\ last_audio_time = lastEmit
    /\ clock >= lastEmit

\* C14: a call made while the clock reads less than last_audio_time is
\* refused: no alert, no error, last_audio_time unchanged.
C14_ClockRegressionRefused ==
    [][ (CheckStep /\ clock < last_audio_time) =>
          /\ pc' = "boxes"
          /\ UNCHANGED <<last_audio_time, frameAlerts, lastEmit, prevEmit>>
      ]_vars

\* a call was refused while the clock stood before last_audio_time
C14_Witness ==
    /\ CurRefused
    /\ clock < last_audio_time

\* C15: one timer for all categories: a call for any category made no more
\* than 2 s after the latest alert is refused, whatever category that alert
\* was for.
C15_SharedCooldown ==
    [][ (CheckStep /\ lastEmit >= 0 /\ clock - lastEmit <= 2) =>
          /\ pc' = "boxes"
          /\ UNCHANGED <<last_audio_time, frameAlerts, lastEmit, prevEmit>>
      ]_vars

\* in one frame the first box alerted and the second, close and of another
\* category, was refused
C15_Witness ==
    /\ CurRefused
    /\ idx = 2
    /\ Len(annotations) = 2
    /\ Len(frameAlerts) = 1
    /\ frameAlerts[1].idx = 1
    /\ frameAlerts[1].label # annotations[2].label
    /\ clock - lastEmit <= 2

\* C17 (as claimed): at every point at which the frame could be abandoned,
\* an alert printed in this frame has its clock reading in last_audio_time.
C17_EmittedIffStored ==
    frameAlerts # <<>> => last_audio_time = lastEmit


\* C16: when two callers invoke the arbitrator under serialisation, no two
\* successive alerts lie within one cooldown window (2 s) of each other;
\* without serialisation the read-then-write of last_audio_time races and
\* such a pair of alerts is reachable (C16_Witness).
C16_SerialisedNoDoubleAlert ==
    serialised =>
        (prevEmit >= 0 => lastEmit - prevEmit > 2)

\* unserialised callers, both past the cooldown test with the timestamp
\* still unwritten: two alerts within one cooldown window
C16_Witness ==
    /\ ~serialised
    /\ \A c \in Callers : callers[c].pc = "store"
    /\ prevEmit >= 0
    /\ lastEmit - prevEmit <= 2
    /\ prevEmit - lastEmit <= 2

\* C16, side check: serialised callers reach a second alert at all
C16_SerialisedSecondAlert == serialised /\ prevEmit >= 0

\* C18: under a non-regressing clock last_audio_time is, in every state,
\* its initial value 0 or the time of the most recently emitted alert; no
\* step decreases it, and it never exceeds the clock reading.
C18_LastIsLatestAlert ==
    [][ /\ (last_audio_time' = 0 \/ last_audio_time' = lastEmit')
        /\ last_audio_time' >= last_audio_time
        /\ last_audio_time' <= clock'
      ]_vars

\* C18, outside the window between line 69 and line 70 of a granted call
C18_BetweenCalls ==
    [][ /\ pc' # "store" =>
              (last_audio_time' = 0 \/ last_audio_time' = lastEmit')
        /\ last_audio_time' >= last_audio_time
        /\ last_audio_time' <= clock'
      ]_vars

\* a close hazard is handed to trigger_bone_conduction
EligibleStep == BoxStep /\ pc' = "trigger"

\* C19: alerts are never suppressed for ever.  A call of the arbitrator made
\* more than the cooldown (2 s) after the previous alert is granted, so the
\* next alert goes to the first close hazard processed after the cooldown;
\* and if close hazards keep being processed while the clock advances, every
\* alert (emitted early enough for the clock to pass the cooldown within
\* MaxClock) is followed by a later one.
C19_AlertsResume ==
    /\ [][ (CheckStep /\ lastEmit >= 0 /\ clock - lastEmit > 2) =>
              (pc' = "store" /\ lastEmit' = clock /\ prevEmit' = lastEmit)
         ]_vars
    /\ ([]<><<EligibleStep>>_vars) =>
          \A t \in 0..(MaxClock - 3) : (lastEmit = t) ~> (lastEmit > t)

\* in one frame a close hazard was refused within the cooldown and the next
\* close hazard, processed after the cooldown, is granted the alert
C19_Witness ==
    /\ pc = "store"
    /\ prevEmit >= 0
    /\ lastEmit = clock
    /\ lastEmit - prevEmit > 2
    /\ idx = 2
    /\ Len(annotations) = 2
    /\ annotations[1].distance < 20
    /\ Len(frameAlerts) = 1
    /\ frameAlerts[1].idx = 2
====
